---- MODULE Spec2Model ----
(***************************************************************************)
(* Doomscroll detection session of bloomscroll                             *)
(* (src/bloomscroll/src/DoomscrollDetection.tsx): the per-frame loop with  *)
(* its signal fusion, rolling confirmation counter, hold/cooldown donation *)
(* trigger and the asynchronous donation sink, and the session's          *)
(* lifecycle: the asynchronous initialisation of the effect (camera,       *)
(* video, the three model loads) and its cleanup.                          *)
(*                                                                         *)
(* Time is in milliseconds.  The clock advances on its own (advance); the  *)
(* frame callback, the sink's settlement and the timeouts read it.  The    *)
(* two clock reads of one frame callback (nowMs, now) fall on the same     *)
(* instant of the grid.  Display-only state (signals, pitchDeg, the        *)
(* canvas) is written by the loop and read by nothing; it is left out.     *)
(***************************************************************************)
EXTENDS Integers, Sequences, FiniteSets, TLC

\* ---- program constants --------------------------------------------------
CONFIRM_FRAMES == 15
HOLD_MS == 2000
COOLDOWN_MS == 30000
NOTIFY_MS == 4000
ERROR_NOTIFY_MS == 5000
THUMB_CLOSE == 35
EYE_FLOOR == 10
IRIS_LANDMARKS == 478
DONATE_EVERY_SECONDS == 10

\* ---- bounds of the model -------------------------------------------------
\* the whole session (loop, sink, timeouts, teardown) is observed for
\* MaxSeconds seconds, the frame loop alone for LongSeconds seconds (long
\* enough for a second donation: HOLD_MS + COOLDOWN_MS + HOLD_MS and a margin)
MaxSeconds == 8
LongSeconds == 36
\* the lifecycle (initialisation racing with the cleanup) is observed for
\* LifeSeconds seconds, with the cleanup function run at most MaxCleanups times
LifeSeconds == 2
MaxCleanups == 2
\* single frames are observed (their signals, the sequence of raw signals from
\* the start of the session) for FrameSeconds seconds and, along the sequences
\* followed frame by frame, for up to MaxFrames frames
FrameSeconds == 4
MaxFrames == 32
\* the session with the test button is followed for ToastSeconds, over at most
\* MaxTests presses of the button
ToastSeconds == 6
MaxTests == 2
ToastTime == ToastSeconds * 1000
\* the timestamps of the provider calls are followed for StampMs milliseconds
StampMs == 20
\* the surplus of raw-true frames is counted up to MaxNet
MaxNet == 18
\* the content script's timer is followed up to MaxPageSeconds seconds on its
\* counter, with at most MaxChecks blacklist checks in flight and MaxDonations
\* donations decided
MaxPageSeconds == 21
MaxChecks == 2
MaxDonations == 2
\* the blacklist tab is followed over lists of at most MaxItems entries, with at
\* most MaxWrites requests to the store in flight
MaxItems == 3
MaxWrites == 2
MaxTime == MaxSeconds * 1000
LongTime == LongSeconds * 1000
LifeTime == LifeSeconds * 1000
FrameTime == FrameSeconds * 1000
\* the clock is observed on a grid of one second: between two events either no
\* observable time passes or a whole number of grid steps
TimeSteps == {1000}

\* Optional<Timestamp>: null is <<>>, a value t is <<t>>
Null == <<>>
Some(t) == <<t>>

Min(a, b) == IF a < b THEN a ELSE b
Max(a, b) == IF a > b THEN a ELSE b
\* Math.ceil(ms / 1000) for ms >= 0
CeilSec(ms) == (ms + 999) \div 1000

VARIABLES
  clock,             \* performance.now()
  handLandmarkerRef, \* TRUE when the ref holds a provider instance
  faceLandmarkerRef,
  objectDetectorRef,
  confirmCountRef,
  holdStartRef,
  lastDonationRef,
  confirmed,         \* useState values written by the loop
  cooldownSec,
  donationCount,
  notification,
  stopped,           \* stopped.current of the session
  rafId,             \* TRUE while a frame callback is scheduled
  sinkCalls,         \* number of donation-sink calls made so far
  pending,           \* the calls (by number) that have not settled yet
  timers,            \* due times of the pending notification timeouts
  uncaught,          \* exceptions that left a frame callback uncaught
  unhandled,         \* promise rejections nobody handled
  frame,             \* history: the locals of the last processed frame
  fires,             \* history: the times of the fires so far
  run,               \* history: the first confirmed stretch of the session
  resumedAt,         \* history: when confirmed last turned true (until a fire)
  outcome,           \* history: how each settled sink call ended
  tick,              \* history: what the last run of the frame callback did
  initPc,            \* where init() of the effect stands
  stream,            \* the MediaStream of the effect's closure
  instances,         \* the provider instances the session's loads create
  status,            \* useState status
  cleanupRuns,       \* history: how often the cleanup function has run
  lateInit,          \* history: init() went on after the cleanup had run
  failure,           \* history: what init() was rejected with
  sigIn,             \* observed: the signals of the last processed frame
  lead,              \* observed: the raw-true frames the session began with
  alt,               \* observed: the frames so far while raw alternated
  stamps,            \* observed: the timestamps of the last two provider calls
  net,               \* observed: raw-true less raw-false frames since count 0
  dip,               \* observed: the misses and hits since confirmed was lost
  selectedCharity,   \* the prop the host passes
  selectedCharityRef, \* selectedCharityRef.current
  testLoading,       \* useState testLoading
  tests,             \* history: the charity each test donation was called with
  sent,              \* history: the charity each fire called the sink with
  shownAt,           \* history: when the notification on display was set
  prevPc,            \* where init() of the session before this one stands
  probe,             \* the landmarks handed to a detection helper
  answer,            \* what the detection helper returned for them
  seconds,           \* content script: let seconds
  interval,          \* content script: let interval is not null
  live,              \* content script: the intervals set and not cleared
  popup,             \* content script: let popup is not null
  hidden,            \* content script: document.hidden
  matches,           \* whether the stored blacklist matches the page
  checks,            \* content script: startTimerIfBlacklisted calls in flight
  lookups,           \* content script: ticks awaiting getSelectedCharity
  donations,         \* history: the sink calls of the content script
  store,             \* the blacklist as persisted
  items,             \* BlacklistTab: useState items
  writes,            \* BlacklistTab: store.set calls in flight
  loaded,            \* BlacklistTab: store.get of the mount effect has settled
  want               \* history: the persisted list with the user's edits applied

\* the state of the session's lifecycle
lifeVars == <<initPc, stream, instances, status, cleanupRuns, lateInit,
              failure>>

\* what the frame-by-frame observation of a session records
obsVars == <<sigIn, lead, alt, stamps, net, dip>>

\* what the host and the test button own, and the session that was replaced
\* the inputs and results of the detection helpers
pureVars == <<probe, answer>>

\* the state of the blacklist content script
pageVars == <<seconds, interval, live, popup, hidden, matches, checks, lookups,
              donations>>

\* the state of the blacklist editor and of the store it writes
tabVars == <<store, items, writes, loaded, want>>

\* what lies outside the detection component
extVars == <<pureVars, pageVars, tabVars>>

hostVars == <<selectedCharity, selectedCharityRef, testLoading, tests, prevPc,
              extVars>>

vars == <<clock, handLandmarkerRef, faceLandmarkerRef, objectDetectorRef,
          confirmCountRef, holdStartRef, lastDonationRef, confirmed,
          cooldownSec, donationCount, notification, stopped, rafId,
          sinkCalls, pending, timers, uncaught, unhandled, frame, fires, run,
          resumedAt, outcome, tick, sent, shownAt,
          lifeVars, obsVars, hostVars>>

\* ---- signal fusion ------------------------------------------------------
\* the five per-frame signals extracted from the provider results; irisDown
\* is computed as faces.length > 0 && isGazingDown(faces[0])
SignalSets ==
  {s \in [grip: BOOLEAN, gazeDown: BOOLEAN, irisDown: BOOLEAN,
          phoneInFrame: BOOLEAN, faceVisible: BOOLEAN] :
     s.irisDown => s.faceVisible}

NoSignal == [grip |-> FALSE, gazeDown |-> FALSE, irisDown |-> FALSE,
             phoneInFrame |-> FALSE, faceVisible |-> FALSE]

B2N(b) == IF b THEN 1 ELSE 0

activeSignals(s) ==
  B2N(s.grip) + B2N(s.gazeDown) + B2N(s.irisDown) + B2N(s.phoneInFrame)

phoneBlockingFace(s) == s.phoneInFrame /\ ~s.faceVisible

\* a variant without the occlusion branch
rawDoomscrollTwoOnly(s) == activeSignals(s) >= 2

rawDoomscroll(s) == phoneBlockingFace(s) \/ activeSignals(s) >= 2

\* ---- inputs of one frame callback -----------------------------------------
\* videoReady: video.videoWidth and video.videoHeight are non-zero
\* throws: "detect" a detectForVideo call throws, "draw" a canvas call throws
FrameInputs ==
  {i \in [videoReady: BOOLEAN, throws: {"none", "detect", "draw"},
          sig: SignalSets] :
     /\ (~i.videoReady) => (i.throws = "none" /\ i.sig = NoSignal)
     /\ (i.throws = "detect") => (i.sig = NoSignal)}

\* the locals of the last processed frame: the counter it read, its raw signal and
\* whether it fired
NoFrame == [processed |-> FALSE, count0 |-> 0, raw |-> FALSE, fired |-> FALSE]

\* the first confirmed stretch: not begun yet, or begun at `start` and so far
\* unbroken (every processed frame since was confirmed and no grid instant
\* passed without a processed frame; `seen`: a frame was processed at the
\* current instant), or broken
NoRun == [state |-> "none", start |-> 0, seen |-> FALSE]
BrokenRun == [state |-> "broken", start |-> 0, seen |-> FALSE]

runAfterFrame(r, isConfirmed, now) ==
  IF r.state = "none"
    THEN IF isConfirmed THEN [state |-> "on", start |-> now, seen |-> TRUE] ELSE r
    ELSE IF r.state = "on"
    THEN IF isConfirmed THEN [r EXCEPT !.seen = TRUE] ELSE BrokenRun
    ELSE r

\* the time of the frame on which confirmed turned from false to true, kept
\* while the frames stay confirmed and until a fire
resumedAfterFrame(r, wasConfirmed, isConfirmed, fire, now) ==
  IF ~isConfirmed \/ fire THEN Null
  ELSE IF ~wasConfirmed THEN Some(now)
  ELSE r

runAfterAdvance(r) ==
  IF r.state = "on"
    THEN IF r.seen THEN [r EXCEPT !.seen = FALSE] ELSE BrokenRun
    ELSE r

\* what the last run of the frame callback did (cancelled: returned at the
\* stopped check; skipped: rescheduled at the readiness guard; threw: a provider
\* call threw; processed), whether stopped.current was set when it began and
\* whether the providers and the video dimensions were there
NoTick == [kind |-> "none", stopped |-> FALSE, ready |-> FALSE]

tickOf(kind, wasStopped, wasReady) ==
  [kind |-> kind, stopped |-> wasStopped, ready |-> wasReady]

\* ---- observing the frames of a session -------------------------------------------
\* lead: while every processed frame so far was raw-true (phase "true"), their
\* number n and the time `at` of frame number CONFIRM_FRAMES; phase "miss" when
\* the frame just processed was the first raw-false one; "past" afterwards
NoLead == [phase |-> "true", n |-> 0, at |-> Null]
PastLead == [phase |-> "past", n |-> 0, at |-> Null]

leadAfter(l, raw, now) ==
  IF l.phase = "true"
    THEN IF raw
           THEN [l EXCEPT !.n = l.n + 1,
                          !.at = IF l.n + 1 = CONFIRM_FRAMES THEN Some(now) ELSE l.at]
           ELSE [l EXCEPT !.phase = "miss"]
    ELSE PastLead

\* alt: while the raw signal of every processed frame so far differed from the
\* one before (on), the number n of frames
NoAlt == [on |-> TRUE, n |-> 0]
BrokenAlt == [on |-> FALSE, n |-> 0]

altAfter(a, raw, lastRaw) ==
  IF a.on /\ (a.n = 0 \/ raw # lastRaw)
    THEN [a EXCEPT !.n = a.n + 1]
    ELSE BrokenAlt

\* ---- charities and the dip after a confirmation ------------------------------
\* the fallback of selectedCharityRef.current ?? "rc"
DefaultCharity == "rc"

\* identifiers the host can select (keys of CHARITY_NAMES)
Charities == {"wwf", "dwb"}

\* no run of misses after a confirmation is being followed
NoDip == [down |-> 0, up |-> 0]

\* ---- counting the frames behind a confirmation -----------------------------------
\* raw-true less raw-false frames since the counter was last 0
netAfter(n, count, raw) ==
  IF count = 0 THEN 0
  ELSE Min(n + (IF raw THEN 1 ELSE -1), MaxNet)

\* the raw-false frames since the counter left CONFIRM_FRAMES and the raw-true
\* frames after them; NoDip when the frames so far are not of that shape
dipAfter(d, wasCount, raw) ==
  IF d.up = d.down
    THEN IF wasCount = CONFIRM_FRAMES /\ ~raw
           THEN [down |-> 1, up |-> 0] ELSE NoDip
  ELSE IF d.up = 0
    THEN IF raw THEN [d EXCEPT !.up = 1]
         ELSE IF d.down < CONFIRM_FRAMES
           THEN [d EXCEPT !.down = d.down + 1] ELSE NoDip
  ELSE IF raw THEN [d EXCEPT !.up = d.up + 1] ELSE NoDip

\* ---- the timestamps of the provider calls ---------------------------------------
\* handLm.detectForVideo(video, nowMs), faceLm.detectForVideo(video, nowMs + 1),
\* objDet.detectForVideo(video, nowMs + 2)
detectStamps(nowMs) ==
  [hand |-> nowMs, face |-> nowMs + 1, object |-> nowMs + 2]

\* the timestamps of the tick before and of this tick
stampsAfter(st, nowMs) ==
  IF st = <<>> THEN <<detectStamps(nowMs)>>
               ELSE <<st[Len(st)], detectStamps(nowMs)>>

\* the milliseconds between two readings of performance.now()
StampSteps == {1, 2, 16}

\* ---- the session's lifecycle: values ------------------------------------------
Providers == {"hand", "face", "object"}

\* the status texts (the ellipsis character written as three dots)
StatusInitialising == <<"Initialising...">>
StatusRequesting == <<"Requesting camera...">>
StatusLoading == <<"Loading MediaPipe models...">>
StatusRunning == <<"Running...">>

\* what an awaited call of init() can reject with: an Error with a message, an
\* Event with a type whose target has a tag name or none, any other value
Thrown ==
  { [kind |-> "Error", text |-> "Permission denied", tag |-> Null],
    [kind |-> "Event", text |-> "error", tag |-> Some("VIDEO")],
    [kind |-> "Event", text |-> "error", tag |-> Null],
    [kind |-> "value", text |-> "failed", tag |-> Null] }

\* reading a property of the null videoRef.current / canvasRef.current
NullElementError ==
  [kind |-> "Error", text |-> "Cannot set properties of null", tag |-> Null]

\* msg of the catch handler
errorMessage(e) ==
  IF e.kind = "Error" THEN <<e.text>>
  ELSE IF e.kind = "Event"
    THEN <<e.text, " event on ", IF e.tag = Null THEN "unknown" ELSE e.tag[1]>>
    ELSE <<e.text>>

statusError(e) == <<"Error: ">> \o errorMessage(e)

isErrorStatus(st) == Len(st) >= 2 /\ st[1] = "Error: "

\* no detection helper is being followed
pureIdle == probe = Null /\ answer = Null

\* the content script is not loaded
pageIdle ==
  /\ seconds = 0
  /\ interval = FALSE
  /\ live = 0
  /\ popup = FALSE
  /\ hidden = FALSE
  /\ matches = FALSE
  /\ checks = <<>>
  /\ lookups = <<>>
  /\ donations = <<>>

\* the blacklist editor is not rendered
tabIdle ==
  /\ store = <<>>
  /\ items = <<>>
  /\ writes = <<>>
  /\ loaded = FALSE
  /\ want = <<>>

\* the refs, state and closure variables as the component and the effect create
\* them
componentInit ==
  /\ clock = 0
  /\ confirmCountRef = 0
  /\ holdStartRef = Null
  /\ confirmed = FALSE
  /\ cooldownSec = 0
  /\ donationCount = 0
  /\ notification = Null
  /\ stopped = FALSE
  /\ sinkCalls = 0
  /\ pending = {}
  /\ timers = {}
  /\ uncaught = 0
  /\ unhandled = 0
  /\ frame = NoFrame
  /\ fires = <<>>
  /\ run = NoRun
  /\ resumedAt = Null
  /\ outcome = <<>>
  /\ tick = NoTick
  /\ cleanupRuns = 0
  /\ lateInit = FALSE
  /\ failure = Null
  /\ sigIn = NoSignal
  /\ lead = NoLead
  /\ alt = NoAlt
  /\ stamps = <<>>
  /\ net = 0
  /\ dip = NoDip
  /\ selectedCharity = Null
  /\ selectedCharityRef = Null
  /\ testLoading = FALSE
  /\ tests = <<>>
  /\ sent = <<>>
  /\ shownAt = Null
  /\ prevPc = "none"

\* a variant of the initial value that starts the cooldown at time 0
initialLastDonationZero == COOLDOWN_MS - COOLDOWN_MS

\* useRef<number>(-COOLDOWN_MS)
initialLastDonation == -COOLDOWN_MS

\* a session whose init() has run to its end: camera granted, the three models
\* loaded, the frame loop started
componentRunning ==
  /\ componentInit
  /\ lastDonationRef = initialLastDonation
  /\ handLandmarkerRef = TRUE
  /\ faceLandmarkerRef = TRUE
  /\ objectDetectorRef = TRUE
  /\ rafId = TRUE
  /\ initPc = "done"
  /\ stream = "live"
  /\ instances = [p \in Providers |-> "open"]
  /\ status = StatusRunning

Init == componentRunning /\ pureIdle /\ pageIdle /\ tabIdle

\* the component as rendered for the first time, its effect not yet run
componentIdle ==
  /\ componentInit
  /\ lastDonationRef = initialLastDonation
  /\ handLandmarkerRef = FALSE
  /\ faceLandmarkerRef = FALSE
  /\ objectDetectorRef = FALSE
  /\ rafId = FALSE
  /\ initPc = "idle"
  /\ stream = "none"
  /\ instances = [p \in Providers |-> "none"]
  /\ status = StatusInitialising

InitLife == componentIdle /\ pureIdle /\ pageIdle /\ tabIdle

\* ---- the frame callback -----------------------------------------------------
\* rolling confirmation
nextConfirmCountNoCap(count, raw) ==
  IF raw THEN count + 1 ELSE Max(count - 1, 0)

\* a variant whose counter does not decay
nextConfirmCountNoDecay(count, raw) ==
  IF raw THEN Min(count + 1, CONFIRM_FRAMES) ELSE count

\* a variant that counts a raw-true frame twice
nextConfirmCountDouble(count, raw) ==
  IF raw THEN Min(count + 2, CONFIRM_FRAMES) ELSE Max(count - 1, 0)

\* a variant in which a miss starts a fresh window
nextConfirmCountReset(count, raw) ==
  IF raw THEN Min(count + 1, CONFIRM_FRAMES) ELSE 0

nextConfirmCount(count, raw) ==
  IF raw THEN Min(count + 1, CONFIRM_FRAMES) ELSE Max(count - 1, 0)

isConfirmedOfEarly(count) == count >= CONFIRM_FRAMES - 1

isConfirmedOf(count) == count >= CONFIRM_FRAMES

\* holdStartRef after "if (holdStartRef.current === null) holdStartRef.current = now"
heldSince(hold, now) == IF hold = Null THEN now ELSE hold[1]

heldLongEnoughHalf(hold, now) == now - heldSince(hold, now) >= HOLD_MS \div 2

heldLongEnough(hold, now) == now - heldSince(hold, now) >= HOLD_MS

cooldownDoneHalf(last, now) == now - last >= COOLDOWN_MS \div 2

cooldownDone(last, now) == now - last >= COOLDOWN_MS

shouldFireNoCooldown(hold, last, now) == heldLongEnough(hold, now)

\* a variant that waits for the earlier sink calls to settle
shouldFireIdle(hold, last, now) ==
  /\ pending = {}
  /\ hold # Null /\ now - hold[1] >= HOLD_MS
  /\ now - last >= COOLDOWN_MS

shouldFire(hold, last, now) == heldLongEnough(hold, now) /\ cooldownDone(last, now)

remainingCooldown(last, now) == Max(0, COOLDOWN_MS - (now - last))

providersReady == handLandmarkerRef /\ faceLandmarkerRef /\ objectDetectorRef

\* if (stopped.current) return;
tickCancelledIgnored == FALSE

tickCancelled == stopped

\* if (!handLm || !faceLm || !objDet || !video.videoWidth || !video.videoHeight)
notReadyProvidersOnly(in) == ~providersReady

notReady(in) == ~providersReady \/ ~in.videoReady

\* holdStartRef at the end of a processed frame
holdStartAfterKeptOnFire(isConfirmed, fire, hold, now) ==
  IF isConfirmed THEN Some(heldSince(hold, now)) ELSE Null

holdStartAfterKeptOnMiss(isConfirmed, fire, hold, now) ==
  IF isConfirmed
    THEN IF fire THEN Null ELSE Some(heldSince(hold, now))
    ELSE hold

holdStartAfter(isConfirmed, fire, hold, now) ==
  IF isConfirmed
    THEN IF fire THEN Null ELSE Some(heldSince(hold, now))
    ELSE Null

\* the value passed to setCooldownSec
\* a variant that shows the remaining cooldown on unconfirmed frames too
cooldownSecAfterAlways(isConfirmed, last, now) ==
  CeilSec(Max(0, COOLDOWN_MS - (now - last)))

\* setCooldownSec(Math.ceil(remaining / 1000)) while confirmed, else
\* setCooldownSec(0)
cooldownSecAfter(isConfirmed, last, now) ==
  IF isConfirmed THEN CeilSec(remainingCooldown(last, now)) ELSE 0

\* selectedCharityRef.current ?? "rc"
charityPassed(ref) == IF ref = Null THEN DefaultCharity ELSE ref[1]

\* the body of loop() between the readiness guard and the drawing
processFrame(in, now) ==
  LET raw   == rawDoomscroll(in.sig)
      count == nextConfirmCount(confirmCountRef, raw)
      isConfirmed == isConfirmedOf(count)
      fire  == isConfirmed /\ shouldFire(holdStartRef, lastDonationRef, now)
  IN  /\ confirmCountRef' = count
      /\ confirmed' = isConfirmed
      /\ holdStartRef' = holdStartAfter(isConfirmed, fire, holdStartRef, now)
      /\ cooldownSec' = cooldownSecAfter(isConfirmed, lastDonationRef, now)
      /\ IF fire
           THEN /\ lastDonationRef' = now
                /\ donationCount' = donationCount + 1
                /\ sinkCalls' = sinkCalls + 1
                /\ pending' = pending \cup {sinkCalls + 1}
                /\ fires' = Append(fires, now)
                /\ sent' = Append(sent, charityPassed(selectedCharityRef))
           ELSE UNCHANGED <<lastDonationRef, donationCount, sinkCalls,
                            pending, fires, sent>>
      /\ frame' = [processed |-> TRUE, count0 |-> confirmCountRef,
                   raw |-> raw, fired |-> fire]
      /\ run' = runAfterFrame(run, isConfirmed, now)
      /\ resumedAt' = resumedAfterFrame(resumedAt, confirmed, isConfirmed, fire, now)
      /\ UNCHANGED outcome

\* one run of the requestAnimationFrame callback
loop(in) ==
  /\ rafId
  /\ UNCHANGED <<clock, handLandmarkerRef, faceLandmarkerRef, objectDetectorRef,
                 notification, stopped, timers, unhandled, shownAt, lifeVars,
                 hostVars>>
  /\ IF tickCancelled
       THEN /\ rafId' = FALSE
            /\ tick' = tickOf("cancelled", stopped, FALSE)
            /\ UNCHANGED <<confirmCountRef, holdStartRef, lastDonationRef,
                           confirmed, cooldownSec, donationCount, sinkCalls,
                           pending, uncaught, frame, fires, run,
                           resumedAt, outcome, sent>>
       ELSE IF notReady(in)
       THEN /\ rafId' = TRUE
            /\ tick' = tickOf("skipped", stopped, FALSE)
            /\ UNCHANGED <<confirmCountRef, holdStartRef, lastDonationRef,
                           confirmed, cooldownSec, donationCount, sinkCalls,
                           pending, uncaught, frame, fires, run,
                           resumedAt, outcome, sent>>
       ELSE IF in.throws = "detect"
       THEN /\ rafId' = FALSE
            /\ tick' = tickOf("threw", stopped, providersReady /\ in.videoReady)
            /\ uncaught' = uncaught + 1
            /\ UNCHANGED <<confirmCountRef, holdStartRef, lastDonationRef,
                           confirmed, cooldownSec, donationCount, sinkCalls,
                           pending, frame, fires, run,
                           resumedAt, outcome, sent>>
       ELSE /\ processFrame(in, clock)
            /\ tick' = tickOf("processed", stopped, providersReady /\ in.videoReady)
            /\ rafId' = (in.throws = "none")
            /\ uncaught' = IF in.throws = "none" THEN uncaught ELSE uncaught + 1

\* ---- the donation sink settles ---------------------------------------------
\* .then((result) => { if (result.success) { setNotification; setTimeout } })
sinkResolves(c, success) ==
  /\ c \in pending
  /\ pending' = pending \ {c}
  /\ IF success
       THEN /\ notification' = Some("donated")
            /\ timers' = timers \cup {clock + NOTIFY_MS}
            /\ shownAt' = Some(clock)
       ELSE UNCHANGED <<notification, timers, shownAt>>
  /\ outcome' = outcome @@ (c :> IF success THEN "succeeded" ELSE "declined")
  /\ UNCHANGED <<clock, handLandmarkerRef, faceLandmarkerRef, objectDetectorRef,
                 confirmCountRef, holdStartRef, lastDonationRef, confirmed,
                 cooldownSec, donationCount, stopped, rafId, sinkCalls,
                 uncaught, unhandled, frame, fires, run,
                 resumedAt, tick, sent, lifeVars, obsVars, hostVars>>

\* a rejection handler that gives the cooldown back
sinkRejectsRollback(c) ==
  /\ c \in pending
  /\ pending' = pending \ {c}
  /\ outcome' = outcome @@ (c :> "rejected")
  /\ lastDonationRef' = initialLastDonation
  /\ UNCHANGED <<clock, shownAt, handLandmarkerRef, faceLandmarkerRef, objectDetectorRef,
                 confirmCountRef, holdStartRef, confirmed,
                 cooldownSec, donationCount, notification, stopped, rafId,
                 sinkCalls, timers, uncaught, unhandled, frame, fires, run,
                 resumedAt, tick, sent, lifeVars, obsVars, hostVars>>

\* .catch(console.error)
sinkRejects(c) ==
  /\ c \in pending
  /\ pending' = pending \ {c}
  /\ outcome' = outcome @@ (c :> "rejected")
  /\ UNCHANGED <<clock, shownAt, handLandmarkerRef, faceLandmarkerRef, objectDetectorRef,
                 confirmCountRef, holdStartRef, lastDonationRef, confirmed,
                 cooldownSec, donationCount, notification, stopped, rafId,
                 sinkCalls, timers, uncaught, unhandled, frame, fires, run,
                 resumedAt, tick, sent, lifeVars, obsVars, hostVars>>

\* setTimeout(() => setNotification(null), 4000) comes due
notificationTimeout(t) ==
  /\ t \in timers
  /\ t <= clock
  /\ timers' = timers \ {t}
  /\ notification' = Null
  /\ shownAt' = Null
  /\ UNCHANGED <<clock, handLandmarkerRef, faceLandmarkerRef, objectDetectorRef,
                 confirmCountRef, holdStartRef, lastDonationRef, confirmed,
                 cooldownSec, donationCount, stopped, rafId, sinkCalls, pending,
                 uncaught, unhandled, frame, fires, run,
                 resumedAt, outcome, tick, sent, lifeVars, obsVars, hostVars>>

\* ---- session start: the effect and its init() ---------------------------------
\* the state the frame loop and the sink own
loopVars == <<confirmCountRef, holdStartRef, lastDonationRef, confirmed,
              cooldownSec, donationCount, sinkCalls, pending, uncaught, frame,
              fires, run, resumedAt, tick, sent>>

sinkVars == <<notification, timers, unhandled, outcome, shownAt>>

refVars == <<handLandmarkerRef, faceLandmarkerRef, objectDetectorRef>>

\* ---- the host changes the selected charity -------------------------------------
\* a variant in which the ref keeps the value it was created with
selectedCharityRefAfterStale(ref, c) == ref

\* useEffect(() => { selectedCharityRef.current = selectedCharity },
\* [selectedCharity])
selectedCharityRefAfter(ref, c) == Some(c)

\* the host's click/change handler sets the selection; the component renders
\* with the new prop and its effect runs in the same commit
selectCharity(c) ==
  /\ selectedCharity # Some(c)
  /\ selectedCharity' = Some(c)
  /\ selectedCharityRef' = selectedCharityRefAfter(selectedCharityRef, c)
  /\ UNCHANGED <<clock, loopVars, sinkVars, refVars, stopped, rafId, lifeVars,
                 obsVars, testLoading, tests, prevPc, extVars>>

\* everything the detection component and its host own
componentVars == <<clock, refVars, loopVars, sinkVars, stopped, rafId, lifeVars,
                   obsVars, selectedCharity, selectedCharityRef, testLoading,
                   tests, prevPc>>

\* ---- the detection helpers (coordinates in hundredths) ---------------------------
\* the landmark indices; TLA+ sequences count from 1, so FINGER_TIPS[i] of the
\* code is FINGER_TIPS[i + 1] here
FINGER_TIPS == <<4, 8, 12, 16, 20>>
FINGER_PIPS == <<3, 6, 10, 14, 18>>

\* the square of dist3D(a, b)
dist3DSq(a, b) ==
  (a.x - b.x) * (a.x - b.x) + (a.y - b.y) * (a.y - b.y)
    + (a.z - b.z) * (a.z - b.z)

\* Math.max(...xs), Math.min(...xs)
MaxOf(S) == CHOOSE m \in S : \A v \in S : v <= m
MinOf(S) == CHOOSE m \in S : \A v \in S : m <= v

\* for (let i = 1; i < FINGER_TIPS.length; i++) if (tip.y > pip.y) curledCount++
curledCount(hand) ==
  Cardinality({i \in 2..Len(FINGER_TIPS) :
                 hand[FINGER_TIPS[i]].y > hand[FINGER_PIPS[i]].y})

\* dist3D(hand[4], hand[9]) < 0.35, both sides squared
thumbClose(hand) == dist3DSq(hand[4], hand[9]) < THUMB_CLOSE * THUMB_CLOSE

bboxW(hand) ==
  MaxOf({hand[i].x : i \in DOMAIN hand}) - MinOf({hand[i].x : i \in DOMAIN hand})

bboxH(hand) ==
  MaxOf({hand[i].y : i \in DOMAIN hand}) - MinOf({hand[i].y : i \in DOMAIN hand})

\* bboxH > bboxW * 0.8, both sides times 10
portraitGrip(hand) == 10 * bboxH(hand) > 8 * bboxW(hand)

\* a variant that is content with two curled fingers
isPhoneGripTwoCurled(hand) ==
  curledCount(hand) >= 2 /\ thumbClose(hand) /\ portraitGrip(hand)

isPhoneGrip(hand) ==
  curledCount(hand) >= 3 /\ thumbClose(hand) /\ portraitGrip(hand)

\* hands.some(isPhoneGrip)
gripDetected(hands) == \E i \in DOMAIN hands : isPhoneGrip(hands[i])

\* the frame's hands go through the helper
extractGrip ==
  /\ probe # Null /\ probe.kind = "hands"
  /\ answer = Null
  /\ answer' = [grip |-> gripDetected(probe.hands),
                each |-> [i \in DOMAIN probe.hands |-> isPhoneGrip(probe.hands[i])]]
  /\ UNCHANGED <<componentVars, probe, pageVars, tabVars>>

\* ---- isGazingDown (heights in ten-thousandths) ------------------------------------
Abs(v) == IF v < 0 THEN -v ELSE v

\* a || b on numbers: b when a is 0
OrElse(a, b) == IF a = 0 THEN b ELSE a

\* Math.abs(face[145].y - face[159].y) || 0.001
leftDen(face) == OrElse(Abs(face.y[145] - face.y[159]), EYE_FLOOR)

\* Math.abs(face[374].y - face[386].y) || 0.001
rightDen(face) == OrElse(Abs(face.y[374] - face.y[386]), EYE_FLOOR)

\* (leftRatio + rightRatio) / 2 > 0.55 with leftRatio = ln / ld and
\* rightRatio = rn / rd, both sides times 200 * ld * rd (ld, rd > 0)
isGazingDown(face) ==
  IF face.len < IRIS_LANDMARKS THEN FALSE
  ELSE LET ln == face.y[468] - face.y[159]
           rn == face.y[473] - face.y[386]
           ld == leftDen(face)
           rd == rightDen(face)
       IN  100 * (ln * rd + rn * ld) > 110 * ld * rd

\* faces.length > 0 && isGazingDown(faces[0])
irisDownOf(faces) == Len(faces) > 0 /\ isGazingDown(faces[1])

\* the frame's faces go through the helper
extractGaze ==
  /\ probe # Null /\ probe.kind = "faces"
  /\ answer = Null
  /\ answer' = [irisDown |-> irisDownOf(probe.faces),
                dens |-> IF Len(probe.faces) > 0
                           THEN <<leftDen(probe.faces[1]), rightDen(probe.faces[1])>>
                           ELSE <<>>]
  /\ UNCHANGED <<componentVars, probe, pageVars, tabVars>>

\* ---- the content script: the timer of a blacklisted page ---------------------------
\* seconds, interval and popup are the script's variables (interval: the handle
\* is set); live counts the intervals set and not cleared.  matches is what
\* list.some(matchesEntry) gives for the stored blacklist and the page's URL.
\* checks holds the calls of startTimerIfBlacklisted whose blacklist check is in
\* flight, lookups the ticks awaiting getSelectedCharity(), oldest first; the
\* storage answers in the order it was asked.  donations records the calls of
\* triggerDonation: the value of seconds that decided it and whether the timer
\* had been stopped since.

\* startTimerIfBlacklisted() called: the check is sent
checksAfterCall(cs) == Append(cs, [done |-> FALSE, blacklisted |-> FALSE])

\* stopTimer(): every tick still awaiting its lookup has seen the timer stopped
lookupsAfterStop(ls) == [i \in DOMAIN ls |-> [ls[i] EXCEPT !.stopped = TRUE]]

\* if (interval) { clearInterval(interval); interval = null; }
liveAfterStop(iv, lv) == IF iv THEN lv - 1 ELSE lv

\* if (interval) return; interval = setInterval(...), without the early return
liveAfterStartAgain(iv, lv) == lv + 1

\* if (interval) return; interval = setInterval(...)
liveAfterStart(iv, lv) == IF iv THEN lv ELSE lv + 1

\* resetTimer(); removePopup();
resetAndRemove ==
  /\ live' = liveAfterStop(interval, live)
  /\ interval' = FALSE
  /\ seconds' = 0
  /\ popup' = FALSE
  /\ lookups' = lookupsAfterStop(lookups)

\* await isCurrentPageBlacklisted(): the storage answers the oldest check not
\* yet answered
blacklistRead ==
  \E i \in DOMAIN checks :
    /\ ~checks[i].done
    /\ \A j \in 1..(i - 1) : checks[j].done
    /\ checks' = [checks EXCEPT ![i] = [done |-> TRUE, blacklisted |-> matches]]
    /\ UNCHANGED <<seconds, interval, live, popup, hidden, matches, lookups, donations>>
    /\ UNCHANGED <<componentVars, pureVars, tabVars>>

\* startTimerIfBlacklisted() after its await
startTimerContinues ==
  /\ checks # <<>> /\ Head(checks).done
  /\ checks' = Tail(checks)
  /\ IF ~Head(checks).blacklisted
       THEN resetAndRemove
       ELSE /\ popup' = TRUE
            /\ interval' = TRUE
            /\ live' = liveAfterStart(interval, live)
            /\ UNCHANGED <<seconds, lookups>>
  /\ UNCHANGED <<hidden, matches, donations>>
  /\ UNCHANGED <<componentVars, pureVars, tabVars>>

\* chrome.storage.onChanged with the blacklist key: the page now matches or not
blacklistChanged(m) ==
  /\ Len(checks) < MaxChecks
  /\ matches' = m
  /\ checks' = checksAfterCall(checks)
  /\ UNCHANGED <<seconds, interval, live, popup, hidden, lookups, donations>>
  /\ UNCHANGED <<componentVars, pureVars, tabVars>>

\* document's visibilitychange
visibilityChange ==
  /\ hidden' = ~hidden
  /\ IF hidden'
       THEN /\ resetAndRemove
            /\ UNCHANGED checks
       ELSE /\ Len(checks) < MaxChecks
            /\ seconds' = 0
            /\ checks' = checksAfterCall(checks)
            /\ UNCHANGED <<interval, live, popup, lookups>>
  /\ UNCHANGED <<matches, donations>>
  /\ UNCHANGED <<componentVars, pureVars, tabVars>>

\* seconds % DONATE_EVERY_SECONDS === 0
donateNow(sec) == sec % DONATE_EVERY_SECONDS = 0

\* the interval's callback up to its await
pageTick ==
  /\ live > 0
  /\ seconds < MaxPageSeconds
  /\ seconds' = seconds + 1
  /\ IF donateNow(seconds')
       THEN /\ Len(lookups) + Len(donations) < MaxDonations
            /\ lookups' = Append(lookups, [at |-> seconds', stopped |-> FALSE])
       ELSE UNCHANGED lookups
  /\ UNCHANGED <<interval, live, popup, hidden, matches, checks, donations>>
  /\ UNCHANGED <<componentVars, pureVars, tabVars>>

\* the interval's callback after await getSelectedCharity(): triggerDonation
charityRead ==
  /\ lookups # <<>>
  /\ donations' = Append(donations, [at |-> Head(lookups).at,
                                     afterStop |-> Head(lookups).stopped])
  /\ lookups' = Tail(lookups)
  /\ UNCHANGED <<seconds, interval, live, popup, hidden, matches, checks>>
  /\ UNCHANGED <<componentVars, pureVars, tabVars>>

\* ---- the blacklist tab ---------------------------------------------------------------
\* A string is a sequence of pieces: a blank, a leading "www." in either case,
\* or a host name in either case.  store is the persisted list, items the
\* displayed one; writes holds the requests sent to the store and not yet
\* served, oldest first (the store serves them in order).  want is the
\* persisted list with every edit the user asked for applied to it.
Blank == " "

\* s.trim() and s.replace(/\s+/g, "")
noBlanks(str) == SelectSeq(str, LAMBDA p : p # Blank)

\* s.replace(/^www\./i, "")
noWww(str) ==
  IF str # <<>> /\ Head(str) \in {"www.", "WWW."} THEN Tail(str) ELSE str

\* normalizeEntry on a host (no scheme)
normalizeEntry(input) == noWww(noBlanks(input))

lowerPiece(p) ==
  CASE p = "A.com" -> "a.com"
    [] p = "B.com" -> "b.com"
    [] p = "WWW." -> "www."
    [] OTHER -> p

\* x.toLowerCase()
toLowerCase(str) == [i \in DOMAIN str |-> lowerPiece(str[i])]

\* items.some((x) => x.toLowerCase() === entry.toLowerCase())
exists(list, entry) ==
  \E i \in DOMAIN list : toLowerCase(list[i]) = toLowerCase(entry)

\* items.filter((_, i) => i !== idx)
without(list, idx) ==
  [i \in 1..(Len(list) - 1) |-> IF i < idx THEN list[i] ELSE list[i + 1]]

\* persist(next): setItems(next); await store.set(next)
persist(next) ==
  /\ items' = next
  /\ writes' = Append(writes, [op |-> "set", list |-> next])

\* what the user asked for, applied to the list w
wantAfterAdd(w, entry) == IF exists(w, entry) THEN w ELSE <<entry>> \o w
wantAfterRemove(w, entry) == SelectSeq(w, LAMBDA x : x # entry)

\* the Add button with value typed in
onAdd(value) ==
  LET entry == normalizeEntry(value) IN
  /\ Len(writes) < MaxWrites /\ Len(items) < MaxItems
  /\ IF entry = <<>> \/ exists(items, entry)
       THEN UNCHANGED <<items, writes, want>>
       ELSE /\ persist(<<entry>> \o items)
            /\ want' = wantAfterAdd(want, entry)
  /\ UNCHANGED <<store, loaded>>
  /\ UNCHANGED <<componentVars, pureVars, pageVars>>

\* the Remove button of row idx
onRemove(idx) ==
  /\ Len(writes) < MaxWrites
  /\ idx \in DOMAIN items
  /\ persist(without(items, idx))
  /\ want' = wantAfterRemove(want, items[idx])
  /\ UNCHANGED <<store, loaded>>
  /\ UNCHANGED <<componentVars, pureVars, pageVars>>

\* the Clear button (disabled while the list is empty)
onClear ==
  /\ Len(writes) < MaxWrites
  /\ items # <<>>
  /\ persist(<<>>)
  /\ want' = <<>>
  /\ UNCHANGED <<store, loaded>>
  /\ UNCHANGED <<componentVars, pureVars, pageVars>>

\* the store serves its oldest request: the get of the mount effect resolves
\* into setItems, a set replaces the persisted list
storeServes ==
  /\ writes # <<>>
  /\ writes' = Tail(writes)
  /\ IF Head(writes).op = "get"
       THEN /\ items' = store
            /\ loaded' = TRUE
            /\ UNCHANGED store
       ELSE /\ store' = Head(writes).list
            /\ UNCHANGED <<items, loaded>>
  /\ UNCHANGED want
  /\ UNCHANGED <<componentVars, pureVars, pageVars>>

\* ---- the test button ---------------------------------------------------------------
\* every variable but those the test button's handler can write
testFrame == <<clock, confirmCountRef, holdStartRef, lastDonationRef, confirmed,
               cooldownSec, sinkCalls, pending, uncaught, frame, fires, run,
               resumedAt, tick, sent, unhandled, outcome, refVars, stopped,
               rafId, lifeVars, obsVars, selectedCharity, selectedCharityRef,
               prevPc, extVars>>

\* onClick up to its await: setTestLoading(true); triggerDonation(...)
testClick ==
  /\ ~testLoading
  /\ Len(tests) < MaxTests
  /\ testLoading' = TRUE
  /\ tests' = Append(tests, [charity |-> charityPassed(selectedCharityRef),
                             result |-> "pending"])
  /\ UNCHANGED <<testFrame, donationCount, notification, timers, shownAt>>

\* how the test donation pressed last ended
testsAfter(ts, result) == [ts EXCEPT ![Len(ts)].result = result]

\* a variant in which a successful test donation starts the cooldown
testResolvesCooldown(success) ==
  /\ testLoading
  /\ IF success
       THEN /\ donationCount' = donationCount + 1
            /\ notification' = Some("donated")
            /\ timers' = timers \cup {clock + NOTIFY_MS}
            /\ shownAt' = Some(clock)
            /\ lastDonationRef' = clock
       ELSE UNCHANGED <<donationCount, notification, timers, shownAt,
                        lastDonationRef>>
  /\ testLoading' = FALSE
  /\ tests' = testsAfter(tests, IF success THEN "succeeded" ELSE "declined")
  /\ UNCHANGED <<clock, confirmCountRef, holdStartRef, confirmed,
                 cooldownSec, sinkCalls, pending, uncaught, frame, fires, run,
                 resumedAt, tick, sent, unhandled, outcome, refVars, stopped,
                 rafId, lifeVars, obsVars, selectedCharity, selectedCharityRef,
                 prevPc, extVars>>

\* a variant that counts a test donation whether or not it succeeded
testResolvesCountsAll(success) ==
  /\ testLoading
  /\ donationCount' = donationCount + 1
  /\ IF success
       THEN /\ notification' = Some("donated")
            /\ timers' = timers \cup {clock + NOTIFY_MS}
            /\ shownAt' = Some(clock)
       ELSE UNCHANGED <<notification, timers, shownAt>>
  /\ testLoading' = FALSE
  /\ tests' = testsAfter(tests, IF success THEN "succeeded" ELSE "declined")
  /\ UNCHANGED testFrame

\* the awaited call resolves: the try block goes on, then finally
testResolves(success) ==
  /\ testLoading
  /\ IF success
       THEN /\ donationCount' = donationCount + 1
            /\ notification' = Some("donated")
            /\ timers' = timers \cup {clock + NOTIFY_MS}
            /\ shownAt' = Some(clock)
       ELSE UNCHANGED <<donationCount, notification, timers, shownAt>>
  /\ testLoading' = FALSE
  /\ tests' = testsAfter(tests, IF success THEN "succeeded" ELSE "declined")
  /\ UNCHANGED testFrame

\* the awaited call rejects: the catch block, then finally
testRejects ==
  /\ testLoading
  /\ notification' = Some("error")
  /\ timers' = timers \cup {clock + ERROR_NOTIFY_MS}
  /\ shownAt' = Some(clock)
  /\ testLoading' = FALSE
  /\ tests' = testsAfter(tests, "rejected")
  /\ UNCHANGED <<testFrame, donationCount>>

\* init().catch((e) => { console.error(e); setStatus(`Error: ${msg}`) }), with a
\* variant that starts init() again
initCatchRetry(e) ==
  /\ status' = statusError(e)
  /\ initPc' = "camera"
  /\ failure' = Some(e)

initCatch(e) ==
  /\ status' = statusError(e)
  /\ initPc' = "failed"
  /\ failure' = Some(e)

\* videoRef.current / canvasRef.current is there while the component is mounted;
\* after the cleanup it is there or not (the cleanup of a remount keeps the
\* elements, an unmount detaches them)
ElementPresent == IF stopped THEN BOOLEAN ELSE {TRUE}

\* the effect runs: init() up to its first await
mount ==
  /\ initPc = "idle"
  /\ initPc' = "camera"
  /\ status' = StatusRequesting
  /\ UNCHANGED <<clock, loopVars, sinkVars, obsVars, hostVars, refVars, stopped, rafId, stream,
                 instances, cleanupRuns, lateInit, failure>>

\* stream = await getUserMedia(...); video.srcObject = stream; video.play()
getUserMediaResolves(present) ==
  /\ initPc = "camera"
  /\ stream' = "live"
  /\ IF present
       THEN initPc' = "play" /\ UNCHANGED <<status, failure>>
       ELSE initCatch(NullElementError)
  /\ lateInit' = (lateInit \/ stopped)
  /\ UNCHANGED <<clock, loopVars, sinkVars, obsVars, hostVars, refVars, stopped, rafId, instances,
                 cleanupRuns>>

getUserMediaRejects(e) ==
  /\ initPc = "camera"
  /\ initCatch(e)
  /\ lateInit' = (lateInit \/ stopped)
  /\ UNCHANGED <<clock, loopVars, sinkVars, obsVars, hostVars, refVars, stopped, rafId, stream,
                 instances, cleanupRuns>>

\* await video.play(); setStatus("Loading MediaPipe models…"); forVisionTasks(...)
playResolves ==
  /\ initPc = "play"
  /\ initPc' = "resolver"
  /\ status' = StatusLoading
  /\ lateInit' = (lateInit \/ stopped)
  /\ UNCHANGED <<clock, loopVars, sinkVars, obsVars, hostVars, refVars, stopped, rafId, stream,
                 instances, cleanupRuns, failure>>

playRejects(e) ==
  /\ initPc = "play"
  /\ initCatch(e)
  /\ lateInit' = (lateInit \/ stopped)
  /\ UNCHANGED <<clock, loopVars, sinkVars, obsVars, hostVars, refVars, stopped, rafId, stream,
                 instances, cleanupRuns>>

\* vision = await FilesetResolver.forVisionTasks(...); the three
\* createFromOptions calls start
resolverResolves ==
  /\ initPc = "resolver"
  /\ initPc' = "models"
  /\ instances' = [p \in Providers |-> "loading"]
  /\ lateInit' = (lateInit \/ stopped)
  /\ UNCHANGED <<clock, loopVars, sinkVars, obsVars, hostVars, refVars, stopped, rafId, stream,
                 status, cleanupRuns, failure>>

resolverRejects(e) ==
  /\ initPc = "resolver"
  /\ initCatch(e)
  /\ lateInit' = (lateInit \/ stopped)
  /\ UNCHANGED <<clock, loopVars, sinkVars, obsVars, hostVars, refVars, stopped, rafId, stream,
                 instances, cleanupRuns>>

\* one createFromOptions promise settles (whether or not Promise.all has
\* already rejected)
modelLoads(p) ==
  /\ instances[p] = "loading"
  /\ instances' = [instances EXCEPT ![p] = "open"]
  /\ UNCHANGED <<clock, loopVars, sinkVars, obsVars, hostVars, refVars, stopped, rafId, stream,
                 initPc, status, cleanupRuns, lateInit, failure>>

modelFails(p) ==
  /\ instances[p] = "loading"
  /\ instances' = [instances EXCEPT ![p] = "failed"]
  /\ UNCHANGED <<clock, loopVars, sinkVars, obsVars, hostVars, refVars, stopped, rafId, stream,
                 initPc, status, cleanupRuns, lateInit, failure>>

\* Promise.all resolves: the refs are set, setStatus("Running…"),
\* canvasRef.current!.getContext("2d"), drawLoop(...) schedules the first tick
promiseAllResolves(present) ==
  /\ initPc = "models"
  /\ \A p \in Providers : instances[p] = "open"
  /\ handLandmarkerRef' = TRUE
  /\ faceLandmarkerRef' = TRUE
  /\ objectDetectorRef' = TRUE
  /\ IF present
       THEN /\ status' = StatusRunning
            /\ initPc' = "done"
            /\ rafId' = TRUE
            /\ UNCHANGED failure
       ELSE /\ initCatch(NullElementError)
            /\ UNCHANGED rafId
  /\ lateInit' = (lateInit \/ stopped)
  /\ UNCHANGED <<clock, loopVars, sinkVars, obsVars, hostVars, stopped, stream, instances,
                 cleanupRuns>>

\* Promise.all rejects with the first failure
promiseAllRejects(e) ==
  /\ initPc = "models"
  /\ \E p \in Providers : instances[p] = "failed"
  /\ initCatch(e)
  /\ lateInit' = (lateInit \/ stopped)
  /\ UNCHANGED <<clock, loopVars, sinkVars, obsVars, hostVars, refVars, stopped, rafId, stream,
                 instances, cleanupRuns>>

\* ---- session teardown (the effect's cleanup) --------------------------------
\* stopped.current = true, with a variant that flips the flag
stoppedAfterCleanupToggled == ~stopped

stoppedAfterCleanup == TRUE

\* stream?.getTracks().forEach((t) => t.stop())
streamAfterStop(st) == IF st = "live" THEN "stopped" ELSE st

refOf(p) ==
  IF p = "hand" THEN handLandmarkerRef
  ELSE IF p = "face" THEN faceLandmarkerRef
  ELSE objectDetectorRef

\* xRef.current?.close()
instancesAfterClose ==
  [p \in Providers |-> IF refOf(p) THEN "closed" ELSE instances[p]]

\* the body of the cleanup function
teardown ==
  /\ stopped' = stoppedAfterCleanup
  /\ rafId' = FALSE
  /\ stream' = streamAfterStop(stream)
  /\ instances' = instancesAfterClose
  /\ handLandmarkerRef' = FALSE
  /\ faceLandmarkerRef' = FALSE
  /\ objectDetectorRef' = FALSE
  /\ cleanupRuns' = cleanupRuns + 1
  /\ UNCHANGED <<clock, loopVars, sinkVars, obsVars, hostVars, initPc, status, lateInit,
                 failure>>

\* the host runs the cleanup of the effect
cleanup ==
  /\ initPc # "idle"
  /\ ~stopped
  /\ teardown

\* the cleanup function is run once more
cleanupAgain ==
  /\ stopped
  /\ cleanupRuns < MaxCleanups
  /\ teardown

\* ---- the effect runs again after its cleanup (StrictMode, remount) ----------------
\* the effect's body runs anew: a new closure (stopped, rafId, stream) and a new
\* init(), which sets the status and awaits the camera; the refs and the state
\* of the component stay. init() of the session before goes on where it was; of
\* that session the model keeps the position of its init() only
remount ==
  /\ stopped
  /\ prevPc = "none"
  /\ prevPc' = initPc
  /\ stopped' = FALSE
  /\ rafId' = FALSE
  /\ stream' = "none"
  /\ instances' = [p \in Providers |-> "none"]
  /\ initPc' = "camera"
  /\ status' = StatusRequesting
  /\ cleanupRuns' = 0
  /\ lateInit' = FALSE
  /\ failure' = Null
  /\ UNCHANGED <<clock, loopVars, sinkVars, obsVars, refVars, selectedCharity,
                 selectedCharityRef, testLoading, tests, extVars>>

\* init() of the session before is at an await
prevAwaiting == prevPc \in {"camera", "play", "resolver", "models"}

\* an await of the earlier session's init() resolves and init() runs on to the
\* next one: after video.play() it sets the status, after Promise.all it sets
\* the refs and the status and calls drawLoop (whose tick returns at once)
prevInitResolves ==
  /\ prevAwaiting
  /\ prevPc' = CASE prevPc = "camera" -> "play"
                  [] prevPc = "play" -> "resolver"
                  [] prevPc = "resolver" -> "models"
                  [] prevPc = "models" -> "done"
  /\ status' = CASE prevPc = "play" -> StatusLoading
                  [] prevPc = "models" -> StatusRunning
                  [] OTHER -> status
  /\ IF prevPc = "models"
       THEN /\ handLandmarkerRef' = TRUE
            /\ faceLandmarkerRef' = TRUE
            /\ objectDetectorRef' = TRUE
       ELSE UNCHANGED refVars
  /\ UNCHANGED <<clock, loopVars, sinkVars, obsVars, stopped, rafId, initPc,
                 stream, instances, cleanupRuns, lateInit, failure,
                 selectedCharity, selectedCharityRef, testLoading, tests,
                 extVars>>

\* an await of the earlier session's init() rejects: its catch sets the status
prevInitRejects(e) ==
  /\ prevAwaiting
  /\ prevPc' = "failed"
  /\ status' = statusError(e)
  /\ UNCHANGED <<clock, loopVars, sinkVars, obsVars, refVars, stopped, rafId,
                 initPc, stream, instances, cleanupRuns, lateInit, failure,
                 selectedCharity, selectedCharityRef, testLoading, tests,
                 extVars>>

\* ---- time passes -------------------------------------------------------------
\* a timeout runs when it is due: the clock does not pass a pending due time
advanceWithin(dt, horizon) ==
  /\ clock + dt <= horizon
  /\ \A t \in timers : clock + dt <= t
  /\ clock' = clock + dt
  /\ run' = runAfterAdvance(run)
  /\ UNCHANGED <<resumedAt, shownAt>>
  /\ UNCHANGED <<handLandmarkerRef, faceLandmarkerRef, objectDetectorRef,
                 confirmCountRef, holdStartRef, lastDonationRef, confirmed,
                 cooldownSec, donationCount, notification, stopped, rafId,
                 sinkCalls, pending, timers, uncaught, unhandled, frame, fires,
                 outcome, tick, sent, lifeVars, obsVars, hostVars>>

advance(dt) == advanceWithin(dt, MaxTime)

advanceLong(dt) == advanceWithin(dt, LongTime)

advanceLife(dt) == advanceWithin(dt, LifeTime)

\* ---- the whole session ---------------------------------------------------------
Next ==
  \/ \E in \in FrameInputs : loop(in) /\ UNCHANGED obsVars
  \/ \E c \in pending, success \in BOOLEAN : sinkResolves(c, success)
  \/ \E c \in pending : sinkRejects(c)
  \/ \E t \in timers : notificationTimeout(t)
  \/ cleanup
  \/ \E dt \in TimeSteps : advance(dt)

Spec == Init /\ [][Next]_vars

\* ---- the frame loop over a long time: sink calls are started and stay pending --
HealthyInputs == {i \in FrameInputs : i.throws = "none"}

\* the video has its dimensions from the first tick on (a tick that stops at the
\* readiness guard changes nothing the trigger reads)
ReadyInputs == {i \in HealthyInputs : i.videoReady}

\* where a frame matters through its fusion result only, one raw-false and one
\* raw-true signal set stand for the others
RawInputs ==
  {i \in ReadyInputs :
     i.sig \in {NoSignal, [NoSignal EXCEPT !.grip = TRUE, !.gazeDown = TRUE]}}

NextPolicy ==
  \/ \E in \in ReadyInputs : loop(in) /\ UNCHANGED obsVars
  \/ \E dt \in TimeSteps : advanceLong(dt)

SpecPolicy == Init /\ [][NextPolicy]_vars

\* ---- the frames of a running session, observed one by one ------------------------
\* what a run of the frame callback adds to the observation
observe(in) ==
  IF tick'.kind = "processed"
    THEN /\ sigIn' = in.sig
         /\ lead' = leadAfter(lead, rawDoomscroll(in.sig), clock)
         /\ alt' = altAfter(alt, rawDoomscroll(in.sig), frame.raw)
         /\ UNCHANGED <<stamps, net, dip>>
    ELSE UNCHANGED obsVars

observedLoop(in) ==
  /\ lead.n < MaxFrames
  /\ alt.n < MaxFrames
  /\ loop(in)
  /\ observe(in)

advanceFrames(dt) == advanceWithin(dt, FrameTime)

NextFrames ==
  \/ \E in \in ReadyInputs : observedLoop(in)
  \/ \E dt \in TimeSteps : advanceFrames(dt)

SpecFrames == Init /\ [][NextFrames]_vars

\* ---- a running session while the host changes the charity ----------------------
NextCharity ==
  \/ \E in \in ReadyInputs : loop(in) /\ UNCHANGED obsVars
  \/ \E c \in Charities : selectCharity(c)
  \/ \E dt \in TimeSteps : advanceFrames(dt)

SpecCharity == Init /\ [][NextCharity]_vars

\* ---- the counter of a running session, frame by frame ----------------------------
observeCounter(in) ==
  IF tick'.kind = "processed"
    THEN /\ net' = netAfter(net, confirmCountRef', rawDoomscroll(in.sig))
         /\ dip' = dipAfter(dip, confirmCountRef, rawDoomscroll(in.sig))
         /\ UNCHANGED <<sigIn, lead, alt, stamps>>
    ELSE UNCHANGED obsVars

NextCounter ==
  \/ \E in \in RawInputs : loop(in) /\ observeCounter(in)
  \/ \E dt \in TimeSteps : advanceFrames(dt)

SpecCounter == Init /\ [][NextCounter]_vars

\* ---- the provider calls of a running session, to the millisecond -----------------
observeStamps(in) ==
  IF tick'.kind = "processed"
    THEN /\ stamps' = stampsAfter(stamps, clock)
         /\ UNCHANGED <<sigIn, lead, alt, net, dip>>
    ELSE UNCHANGED obsVars

advanceStamps(dt) == advanceWithin(dt, StampMs)

NextStamps ==
  \/ \E in \in RawInputs : loop(in) /\ observeStamps(in)
  \/ \E dt \in StampSteps : advanceStamps(dt)

SpecStamps == Init /\ [][NextStamps]_vars

\* ---- a running session with the test button and the notifications ---------------
advanceToast(dt) == advanceWithin(dt, ToastTime)

NextToast ==
  \/ \E in \in RawInputs : loop(in) /\ UNCHANGED obsVars
  \/ \E c \in pending, success \in BOOLEAN : sinkResolves(c, success)
  \/ \E c \in pending : sinkRejects(c)
  \/ testClick
  \/ \E success \in BOOLEAN : testResolves(success)
  \/ testRejects
  \/ \E t \in timers : notificationTimeout(t)
  \/ \E dt \in TimeSteps : advanceToast(dt)

SpecToast == Init /\ [][NextToast]_vars

\* ---- the lifecycle: the effect, init(), the frame loop and the cleanup ----------
initStep ==
  \/ mount
  \/ \E present \in ElementPresent : getUserMediaResolves(present)
  \/ \E e \in Thrown : getUserMediaRejects(e)
  \/ playResolves
  \/ \E e \in Thrown : playRejects(e)
  \/ resolverResolves
  \/ \E e \in Thrown : resolverRejects(e)
  \/ \E p \in Providers : modelLoads(p)
  \/ \E p \in Providers : modelFails(p)
  \/ \E present \in ElementPresent : promiseAllResolves(present)
  \/ \E e \in Thrown : promiseAllRejects(e)

NextLife ==
  \/ initStep
  \/ \E in \in FrameInputs : loop(in) /\ UNCHANGED obsVars
  \/ cleanup
  \/ \E dt \in TimeSteps : advanceLife(dt)

SpecLife == InitLife /\ [][NextLife]_vars

\* the cleanup function called again after the host's call
NextTeardown ==
  \/ NextLife
  \/ cleanupAgain

SpecTeardown == InitLife /\ [][NextTeardown]_vars

\* the lifecycle with one remount of the effect
NextRemount ==
  \/ NextLife
  \/ remount
  \/ prevInitResolves
  \/ \E e \in Thrown : prevInitRejects(e)

SpecRemount == InitLife /\ [][NextRemount]_vars

\* ---- the detection helpers on sample landmarks ------------------------------------
Pt(x, y, z) == [x |-> x, y |-> y, z |-> z]

\* a hand around (50, 50): finger f has its proximal joint at height 40 and its
\* tip curl[f] below it, the thumb tip is at thumb from landmark 9, the wrist
\* at wrist from it
SampleHand(curl, thumb, wrist) ==
  [i \in 0..20 |->
     CASE i = 4 -> Pt(50 + thumb[1], 50 + thumb[2], thumb[3])
       [] i = 0 -> Pt(50 + wrist[1], 50 + wrist[2], 0)
       [] i \in {6, 10, 14, 18} -> Pt(50, 40, 0)
       [] i = 8 -> Pt(50, 40 + curl[1], 0)
       [] i = 12 -> Pt(50, 40 + curl[2], 0)
       [] i = 16 -> Pt(50, 40 + curl[3], 0)
       [] i = 20 -> Pt(50, 40 + curl[4], 0)
       [] OTHER -> Pt(50, 50, 0)]

SampleCurls == [1..4 -> {-5, 0, 5}]
SampleThumbs == {<<0, 0, 0>>, <<21, 28, 0>>, <<20, 20, 25>>, <<20, 20, 0>>,
                 <<40, 0, 0>>}
SampleWrists == {<<0, 30>>, <<50, 0>>, <<50, 25>>}

SampleHands ==
  {SampleHand(c, t, w) : c \in SampleCurls, t \in SampleThumbs, w \in SampleWrists}

\* a grip, and hands that miss one condition each
GripHand == SampleHand(<<5, 5, 5, 0>>, <<20, 20, 0>>, <<0, 30>>)
SomeHands ==
  {GripHand,
   SampleHand(<<5, 5, 0, 0>>, <<20, 20, 0>>, <<0, 30>>),
   SampleHand(<<5, 5, 5, 0>>, <<21, 28, 0>>, <<0, 30>>),
   SampleHand(<<5, 5, 5, -5>>, <<20, 20, 0>>, <<50, 25>>)}

HandProbes ==
  {[kind |-> "hands", hands |-> hs] :
     hs \in {<<>>} \cup {<<h>> : h \in SampleHands}
               \cup {<<a, b>> : a \in SomeHands, b \in SomeHands}}

\* a face with len landmarks: upper lids at height 1000, lower lids a gap
\* below, the irises (landmarks 468 and 473, there from 478 landmarks on) at
\* iris below the upper lid
SampleFace(len, gaps, iris) ==
  [len |-> len,
   y |-> IF len < 478
           THEN (159 :> 1000) @@ (145 :> 1000 + gaps[1])
                @@ (386 :> 1000) @@ (374 :> 1000 + gaps[2])
           ELSE (159 :> 1000) @@ (145 :> 1000 + gaps[1])
                @@ (386 :> 1000) @@ (374 :> 1000 + gaps[2])
                @@ (468 :> 1000 + iris[1]) @@ (473 :> 1000 + iris[2])]

SampleFaces ==
  {SampleFace(len, <<gl, gr>>, <<il, ir>>) :
     len \in {468, 478}, gl \in {0, 5, 10, 200, -200}, gr \in {0, 5, 200},
     il \in {0, 3, 120}, ir \in {0, 100}}

FaceProbes ==
  {[kind |-> "faces", faces |-> fs] :
     fs \in {<<>>} \cup {<<f>> : f \in SampleFaces}}

InitSignals ==
  /\ componentIdle /\ pageIdle /\ tabIdle
  /\ probe \in HandProbes \cup FaceProbes
  /\ answer = Null

NextSignals ==
  \/ extractGrip
  \/ extractGaze

SpecSignals == InitSignals /\ [][NextSignals]_vars

\* ---- the content script on a page --------------------------------------------------
\* the script has just run: the first check is in flight
InitPage ==
  /\ componentIdle /\ pureIdle /\ tabIdle
  /\ seconds = 0
  /\ interval = FALSE
  /\ live = 0
  /\ popup = FALSE
  /\ hidden = FALSE
  /\ matches \in BOOLEAN
  /\ checks = checksAfterCall(<<>>)
  /\ lookups = <<>>
  /\ donations = <<>>

NextPage ==
  \/ blacklistRead
  \/ startTimerContinues
  \/ \E m \in BOOLEAN : blacklistChanged(m)
  \/ visibilityChange
  \/ pageTick
  \/ charityRead

SpecPage == InitPage /\ [][NextPage]_vars

\* ---- the blacklist tab, from its mount ---------------------------------------------
StoredLists ==
  {<<>>, << <<"a.com">> >>, << <<"b.com">>, <<"A.com">> >>}

TypedValues ==
  {<<Blank>>, <<"a.com">>, <<"A.com", Blank>>, <<"WWW.", "b.com">>,
   <<"www.", "B.com">>}

\* the tab has just mounted: items is [] and the effect's store.get() is sent
InitTab ==
  /\ componentIdle /\ pureIdle /\ pageIdle
  /\ store \in StoredLists
  /\ items = <<>>
  /\ writes = <<[op |-> "get"]>>
  /\ loaded = FALSE
  /\ want = store

NextTab ==
  \/ \E v \in TypedValues : onAdd(v)
  \/ \E idx \in 1..MaxItems : onRemove(idx)
  \/ onClear
  \/ storeServes

SpecTab == InitTab /\ [][NextTab]_vars

\* ==== the claims ====================================================================

\* a step on which the frame loop invokes the donation sink
Fires == sinkCalls' # sinkCalls

\* consecutive fires are at least COOLDOWN_MS apart
FiresSpaced ==
  \A i \in 2..Len(fires) : fires[i] - fires[i - 1] >= COOLDOWN_MS

\* C1: the frame loop invokes the donation sink on a frame only if on that frame
\* confirmed is true, now - holdStart >= HOLD_MS (holdStart being set before the
\* frame) and now - lastDonation >= COOLDOWN_MS.
C1_FireOnlyWhenDue ==
  [][Fires =>
       /\ confirmed'
       /\ holdStartRef # Null
       /\ clock' - holdStartRef[1] >= HOLD_MS
       /\ clock' - lastDonationRef >= COOLDOWN_MS]_vars

\* a second donation has just fired
C1_Witness == frame.fired /\ Len(fires) = 2 /\ lastDonationRef = clock

\* C2: while the first confirmed stretch of a fresh session is unbroken (every
\* processed frame confirmed, a frame processed at least every 1000 ms), at most
\* two fires fall within HOLD_MS + COOLDOWN_MS + HOLD_MS of its first frame, and
\* once that time has passed exactly two have: one HOLD_MS after the first frame
\* and one COOLDOWN_MS later; after the first fire holdStart is unset or set to a
\* time not before that fire, never the time of the original confirmation.
C2_StretchEnd == run.start + HOLD_MS + COOLDOWN_MS + HOLD_MS

C2_TwoFiresInStretch ==
  run.state = "on" =>
    LET inStretch == {i \in DOMAIN fires : fires[i] <= C2_StretchEnd}
    IN  /\ Cardinality(inStretch) <= 2
        /\ clock >= C2_StretchEnd =>
              /\ Cardinality(inStretch) = 2
              /\ fires[1] = run.start + HOLD_MS
              /\ fires[2] = fires[1] + COOLDOWN_MS
        /\ (Len(fires) >= 1 /\ holdStartRef # Null) =>
              (holdStartRef[1] >= fires[1] /\ holdStartRef[1] > run.start)

\* the stretch has lasted HOLD_MS + COOLDOWN_MS + HOLD_MS
C2_Witness == run.state = "on" /\ clock >= C2_StretchEnd /\ Len(fires) = 2

\* C3: consecutive fires are at least COOLDOWN_MS apart; a tick fires at most
\* once and makes one sink call per fire; a fire consumes the hold: it needs a
\* hold of at least HOLD_MS that began no earlier than the previous fire, and it
\* leaves holdStart unset, so that staying confirmed needs a new hold.
C3_OneFirePerHoldAndCooldown ==
  /\ [](/\ FiresSpaced
        /\ sinkCalls = Len(fires)
        /\ holdStartRef # Null => holdStartRef[1] >= lastDonationRef)
  /\ [][/\ sinkCalls' <= sinkCalls + 1
        /\ Len(fires') <= Len(fires) + 1
        /\ Fires =>
             /\ holdStartRef # Null
             /\ clock' - holdStartRef[1] >= HOLD_MS
             /\ holdStartRef[1] >= lastDonationRef
             /\ holdStartRef' = Null]_vars

\* two fires, the second after a confirmation that went on after the first
C3_Witness == Len(fires) = 2 /\ run.state = "on"

C5_CounterSaturates ==
  /\ confirmCountRef \in 0..CONFIRM_FRAMES
  /\ frame.processed =>
        confirmCountRef = IF frame.raw
                            THEN Min(frame.count0 + 1, CONFIRM_FRAMES)
                            ELSE Max(frame.count0 - 1, 0)
  /\ ~frame.processed => confirmCountRef = 0

\* a raw-true frame found the counter at CONFIRM_FRAMES and left it there
C5_Witness ==
  /\ frame.processed /\ frame.raw
  /\ frame.count0 = CONFIRM_FRAMES
  /\ confirmCountRef = CONFIRM_FRAMES

\* C6: the confirmed output (computed as counter >= CONFIRM_FRAMES) equals
\* counter = CONFIRM_FRAMES in every reachable state.
C6_ConfirmedIffFull == confirmed = (confirmCountRef = CONFIRM_FRAMES)

\* confirmation has been reached
C6_Witness == confirmed /\ confirmCountRef = CONFIRM_FRAMES /\ frame.count0 = CONFIRM_FRAMES - 1

\* C7: holdStart is set only while the last processed frame was confirmed; it is
\* unset after a frame that was not confirmed and after a frame that fired.
C7_HoldOnlyWhileConfirmed ==
  /\ holdStartRef # Null => confirmed
  /\ ~confirmed => holdStartRef = Null
  /\ frame.fired => holdStartRef = Null

\* a frame has fired and left holdStart unset
C7_Witness == frame.fired /\ holdStartRef = Null /\ confirmed

\* C8: lastDonation changes only on a fire, to the time of that frame, which is
\* greater than its previous value; until the first fire it is -COOLDOWN_MS and
\* the cooldown condition holds at every time.
C8_LastDonationForward ==
  /\ [][lastDonationRef' # lastDonationRef =>
          /\ Fires
          /\ lastDonationRef' = clock'
          /\ lastDonationRef' > lastDonationRef]_vars
  /\ [](fires = <<>> =>
          /\ lastDonationRef = -COOLDOWN_MS
          /\ clock - lastDonationRef >= COOLDOWN_MS)
  /\ [](fires # <<>> => lastDonationRef = fires[Len(fires)])

\* lastDonation has moved forward twice
C8_Witness == Len(fires) = 2 /\ lastDonationRef = fires[2] /\ fires[2] > fires[1]

\* C9: the settlement of a sink call (resolved with success, resolved without,
\* rejected) changes none of ConfirmCounter, holdStart, lastDonation, starts no
\* new sink call and leaves the frame loop scheduled; lastDonation stays the time
\* of the last fire, fires stay COOLDOWN_MS apart, and no rejection is unhandled.
C9_Settles == pending' # pending /\ pending' \subseteq pending

C9_SinkOutcomeIgnored ==
  /\ [][C9_Settles =>
          UNCHANGED <<confirmCountRef, holdStartRef, lastDonationRef, sinkCalls,
                      rafId, stopped, uncaught, fires>>]_vars
  /\ [](unhandled = 0)
  /\ [](fires # <<>> => lastDonationRef = fires[Len(fires)])
  /\ []FiresSpaced

\* the sink call of the fire was rejected; the loop runs on, a frame of the
\* current instant found a further completed hold and did not fire
C9_Witness ==
  /\ \E c \in DOMAIN outcome : outcome[c] = "rejected"
  /\ Len(fires) = 1 /\ lastDonationRef = fires[1]
  /\ rafId /\ confirmed /\ frame.processed /\ ~frame.fired
  /\ holdStartRef # Null /\ clock - holdStartRef[1] >= HOLD_MS
  /\ cooldownSec = CeilSec(COOLDOWN_MS - (clock - lastDonationRef))

\* C10: no exception leaves a frame callback, and until the session is stopped a
\* frame callback is scheduled.
C10_LoopSurvivesThrow == uncaught = 0 /\ (~stopped => rafId)

\* the state a processed frame writes
frameState == <<confirmCountRef, holdStartRef, lastDonationRef, confirmed,
                cooldownSec, donationCount, sinkCalls, pending, frame, fires>>

\* a run of the frame callback that called a provider
CalledProvider == tick.kind \in {"threw", "processed"}

\* C11: once the session is stopped no run of the frame callback calls a
\* provider, and no step changes ConfirmCounter, holdStart, lastDonation or
\* starts a sink call, whether the cleanup ran with a tick pending or with
\* init() still in flight and completing afterwards.
C11_NoFrameAfterStop ==
  /\ [](CalledProvider => ~tick.stopped)
  /\ [][stopped => UNCHANGED frameState]_vars

\* init() completed after the cleanup, set the refs and started the loop; the
\* tick it scheduled returned at the stopped check
C11_Witness ==
  /\ stopped /\ lateInit /\ initPc = "done"
  /\ providersReady
  /\ tick.kind = "cancelled" /\ ~rafId

\* no camera stream and no provider instance of the session is held
AllReleased ==
  /\ stream # "live"
  /\ \A p \in Providers : instances[p] # "open"

\* init() has run to its end or failed and no model load is in flight: nothing
\* of the session runs any more that could acquire or release a resource
LifecycleSettled ==
  /\ initPc \in {"done", "failed"}
  /\ \A p \in Providers : instances[p] # "loading"

\* C12: after the cleanup of a session the camera stream and the three provider
\* instances end up released, wherever init() stood when the cleanup ran: once
\* the session is stopped and its init() and model loads have settled, none is
\* held.
C12_ReleasedAfterTeardown == (stopped /\ LifecycleSettled) => AllReleased

\* C13: when init() has failed (before the cleanup ran) after some resources
\* were acquired, then once the cleanup has run and the model loads have
\* settled, no stream and no provider instance is held.
C13_ReleasedAfterInitFailure ==
  (initPc = "failed" /\ ~lateInit /\ stopped /\ LifecycleSettled) => AllReleased

\* C14: a rejected getUserMedia, video.play or model creation ends init() in the
\* failed state with the status "Error: " followed by the detail of what was
\* thrown; from then on that session changes neither the state of init() nor
\* the status, and no frame callback is ever scheduled or run.
C14_TerminalError ==
  /\ [](initPc = "failed" =>
          /\ failure # Null
          /\ status = statusError(failure[1])
          /\ isErrorStatus(status)
          /\ ~rafId /\ tick = NoTick /\ ~frame.processed)
  /\ [][failure' # failure => initPc' = "failed"]_vars
  /\ [][initPc = "failed" => (initPc' = "failed" /\ status' = status)]_vars

\* a model load was rejected with an Event while the camera stream was held
C14_Witness ==
  /\ initPc = "failed" /\ ~stopped
  /\ failure # Null /\ failure[1].kind = "Event"
  /\ status = <<"Error: ", "error", " event on ", "VIDEO">>
  /\ stream = "live"
  /\ \E p \in Providers : instances[p] = "failed"

\* a step of the cleanup function
CleanupRan == cleanupRuns' # cleanupRuns

\* the state the cleanup function leaves
TornDown ==
  /\ stopped /\ ~rafId
  /\ ~handLandmarkerRef /\ ~faceLandmarkerRef /\ ~objectDetectorRef
  /\ stream # "live"

\* C15: every run of the cleanup function leaves the cancellation flag set, the
\* provider refs null, no tick pending and the stream not live, and raises no
\* error; run in the state a previous run left, it changes nothing.
C15_TeardownIdempotent ==
  [][CleanupRan =>
       /\ TornDown'
       /\ uncaught' = uncaught
       /\ TornDown =>
            UNCHANGED <<clock, loopVars, sinkVars, obsVars, hostVars, refVars, stopped, rafId,
                        initPc, stream, instances, status, lateInit,
                        failure, obsVars>>]_vars

\* the cleanup function has run twice on a session that had started its loop
C15_Witness ==
  /\ cleanupRuns = MaxCleanups /\ TornDown
  /\ stream = "stopped"
  /\ \A p \in Providers : instances[p] = "closed"

\* C16: a run of the frame callback calls a provider only when init() has
\* completed, the three refs are set and the video dimensions are non-zero; no
\* callback is scheduled before init() has completed; a tick that stops at the
\* readiness guard reschedules itself and leaves the frame state unchanged.
C16_NoFrameBeforeReady ==
  /\ [](CalledProvider => (tick.ready /\ initPc = "done"))
  /\ []((frame.processed \/ rafId) => initPc = "done")
  /\ [][(tick' # tick /\ tick'.kind = "skipped") =>
          (rafId' /\ UNCHANGED frameState)]_vars

\* a tick stopped at the readiness guard (video dimension zero) while a hold
\* was under way, and left counter and hold as they were
C16_Witness ==
  /\ tick.kind = "skipped" /\ rafId /\ ~stopped
  /\ confirmCountRef = CONFIRM_FRAMES /\ holdStartRef # Null
  /\ clock > holdStartRef[1]

\* every combination of the five booleans, including those the extraction
\* cannot produce (irisDown without a visible face)
AllSignals ==
  [grip: BOOLEAN, gazeDown: BOOLEAN, irisDown: BOOLEAN,
   phoneInFrame: BOOLEAN, faceVisible: BOOLEAN]

\* the four signals of the 2-of-4 rule that are true
TrueSignals(s) ==
  {f \in {"grip", "gazeDown", "irisDown", "phoneInFrame"} : s[f]}

FusionRule(s) ==
  (s.phoneInFrame /\ ~s.faceVisible) \/ Cardinality(TrueSignals(s)) >= 2

\* C17: for every combination of the five booleans the raw signal is
\* (phoneInFrame and not faceVisible) or at least 2 of the 4 signals; with exactly
\* one signal true it is true only for phoneInFrame without a visible face; and
\* the raw signal of every processed frame is that of the signals it extracted.
C17_FusionRule ==
  /\ \A s \in AllSignals :
       /\ rawDoomscroll(s) = FusionRule(s)
       /\ Cardinality(TrueSignals(s)) = 1 =>
            (rawDoomscroll(s) = (s.phoneInFrame /\ ~s.faceVisible))
       /\ Cardinality(TrueSignals(s)) = 0 => ~rawDoomscroll(s)
  /\ frame.processed => frame.raw = FusionRule(sigIn)

\* a frame with the phone as the only signal and no face visible was raw-true
C17_Witness ==
  /\ frame.processed /\ frame.raw
  /\ sigIn = [NoSignal EXCEPT !.phoneInFrame = TRUE]
  /\ confirmCountRef > frame.count0

\* C18: while the raw signal has alternated on every frame since the start of
\* the session, ConfirmCounter is at most 1, confirmed is false, holdStart is
\* unset and nothing has fired.
C18_AlternationNeverConfirms ==
  alt.on =>
    /\ confirmCountRef <= 1
    /\ confirmCountRef < CONFIRM_FRAMES
    /\ ~confirmed
    /\ holdStartRef = Null
    /\ fires = <<>> /\ sinkCalls = 0

\* 2 * CONFIRM_FRAMES alternating frames (CONFIRM_FRAMES of them raw-true) over
\* more than HOLD_MS
C18_Witness ==
  /\ alt.on /\ alt.n >= 2 * CONFIRM_FRAMES
  /\ clock >= HOLD_MS
  /\ frame.raw /\ confirmCountRef = 1

\* C19: while every frame since the start of the session was raw-true, after n
\* frames ConfirmCounter is min(n, CONFIRM_FRAMES) and confirmed is true iff
\* n >= CONFIRM_FRAMES; after the first raw-false frame confirmed is false.
C19_ConfirmedAtFrameN ==
  /\ lead.phase = "true" =>
       /\ confirmCountRef = Min(lead.n, CONFIRM_FRAMES)
       /\ confirmed = (lead.n >= CONFIRM_FRAMES)
  /\ lead.phase = "miss" => ~confirmed

\* confirmed from frame CONFIRM_FRAMES on, then the first raw-false frame
C19_Witness ==
  /\ lead.phase = "miss" /\ lead.n > CONFIRM_FRAMES
  /\ ~confirmed /\ confirmCountRef = CONFIRM_FRAMES - 1

\* C20: while every frame since the start of the session was raw-true: before
\* frame CONFIRM_FRAMES nothing is confirmed, held or fired; frame CONFIRM_FRAMES
\* sets holdStart to its time; the first fire is on the first frame whose time
\* is at least HOLD_MS after that, and on no earlier one.
C20_EndToEnd ==
  /\ []((lead.phase = "true" /\ lead.n < CONFIRM_FRAMES) =>
          (~confirmed /\ holdStartRef = Null /\ fires = <<>>))
  /\ []((lead.phase = "true" /\ lead.n >= CONFIRM_FRAMES) =>
          /\ confirmed /\ lead.at # Null
          /\ fires = <<>> => holdStartRef = lead.at
          /\ fires # <<>> => fires[1] >= lead.at[1] + HOLD_MS)
  /\ [][(/\ lead'.phase = "true" /\ lead'.n = lead.n + 1
         /\ lead.n >= CONFIRM_FRAMES /\ fires = <<>>) =>
          (fires' # <<>>) = (clock' >= lead.at[1] + HOLD_MS)]_vars

\* grip and gazeDown alone on every frame: the frame HOLD_MS after frame
\* CONFIRM_FRAMES has fired
C20_Witness ==
  /\ lead.phase = "true" /\ lead.n > CONFIRM_FRAMES
  /\ frame.fired /\ fires = <<lead.at[1] + HOLD_MS>>
  /\ sigIn = [NoSignal EXCEPT !.grip = TRUE, !.gazeDown = TRUE]
  /\ lastDonationRef = clock /\ donationCount = 1

\* ---- failures, display values and the sink -----------------------------------
\* a step that is one run of the frame callback which processed a frame
ProcessedStep ==
  /\ tick'.kind = "processed"
  /\ UNCHANGED <<clock, notification, timers, outcome, lifeVars, hostVars>>

\* a sink call started by a fire is rejected in this step
FireRejected ==
  \E c \in pending : /\ c \notin DOMAIN outcome
                     /\ c \in DOMAIN outcome'
                     /\ outcome'[c] = "rejected"

\* C21: when the sink call of a frame-loop fire fails, the failure is shown to
\* the user as a transient message: the notification is set and a timeout that
\* dismisses it is started.
C21_RejectionShown ==
  [][FireRejected => (notification' # Null /\ timers' # timers)]_vars

\* C23 as stated: after every processed frame the cooldown shown is the remaining
\* cooldown of that frame in whole seconds, whether or not the frame is confirmed.
C23_CooldownEveryFrame ==
  [][ProcessedStep =>
       cooldownSec' = CeilSec(Max(0, COOLDOWN_MS - (clock - lastDonationRef)))]_vars

\* the whole seconds a remaining time rounds up to
RoundsUp(sec, ms) == sec * 1000 >= ms /\ (sec - 1) * 1000 < ms

\* C23, amended: after a processed frame on which confirmed is true the cooldown
\* shown is the remaining cooldown of that frame, max(0, COOLDOWN_MS - (now -
\* lastDonation)), in whole seconds rounded up; after a processed frame on which
\* confirmed is false it is 0.
C23_CooldownWhileConfirmed ==
  [][ProcessedStep =>
       IF confirmed'
         THEN RoundsUp(cooldownSec',
                       Max(0, COOLDOWN_MS - (clock - lastDonationRef)))
         ELSE cooldownSec' = 0]_vars

\* a confirmed frame inside the cooldown of a fire shows the seconds that remain
C23_Witness ==
  /\ fires # <<>> /\ tick.kind = "processed" /\ frame.processed
  /\ clock - lastDonationRef > 0 /\ clock - lastDonationRef < COOLDOWN_MS
  /\ confirmed /\ cooldownSec > 0
  /\ cooldownSec * 1000 = COOLDOWN_MS - (clock - lastDonationRef)

\* C26: a single raw-false frame met while confirmed with the hold running
\* leaves holdStart at its value.
C26_BriefMissKeepsHold ==
  [][(/\ ProcessedStep
      /\ confirmed /\ holdStartRef # Null
      /\ confirmCountRef = CONFIRM_FRAMES
      /\ confirmCountRef' = CONFIRM_FRAMES - 1) =>
       holdStartRef' = holdStartRef]_vars

\* hold and cooldown are satisfied at the time of this state
DueNow ==
  /\ holdStartRef # Null /\ clock - holdStartRef[1] >= HOLD_MS
  /\ clock - lastDonationRef >= COOLDOWN_MS

\* C29: the frame callback stays scheduled while sink calls are pending, every
\* frame it processes advances the counter as the frame's input says, and a
\* confirmed frame at which hold and cooldown are satisfied fires, whether or not
\* the calls of the earlier fires have settled.
C29_LoopNeverWaits ==
  /\ []((pending # {} /\ ~stopped /\ uncaught = 0) => rafId)
  /\ [][(ProcessedStep /\ pending # {}) =>
          /\ confirmCountRef' = nextConfirmCount(confirmCountRef, frame'.raw)
          /\ (confirmed' /\ DueNow) => (Fires /\ sinkCalls' = sinkCalls + 1)]_vars

\* a second fire while the call of the first has not settled
C29_Witness ==
  /\ Len(fires) = 2 /\ pending = {1, 2} /\ frame.fired
  /\ outcome = <<>> /\ rafId

\* C22: every fire passes the sink the selection the host made last before the
\* fire, "rc" when nothing is selected; a change of the selection leaves the
\* counter, holdStart, lastDonation and confirmed alone and neither stops nor
\* restarts the frame loop.
C22_LatestCharity ==
  /\ [](Len(sent) = sinkCalls)
  /\ [][Fires =>
          sent' = Append(sent, IF selectedCharity = Null
                                 THEN "rc" ELSE selectedCharity[1])]_vars
  /\ [][selectedCharity' # selectedCharity =>
          UNCHANGED <<confirmCountRef, holdStartRef, lastDonationRef, confirmed,
                      rafId, stopped, initPc, tick>>]_vars

\* a fire passed "dwb", selected during the session, and the selection has
\* changed again since
C22_Witness ==
  /\ sent = <<"dwb">> /\ frame.fired /\ sinkCalls = 1
  /\ selectedCharity = Some("wwf") /\ selectedCharityRef = Some("wwf")
  /\ confirmed /\ rafId

\* C24: an acknowledgment on display was set at most NOTIFY_MS ago, and it is
\* cleared only at the time NOTIFY_MS after it was set, whatever other donations
\* were acknowledged before it.
C24_ShownForNotifyMs ==
  /\ []((notification = Some("donated")) =>
          (shownAt # Null /\ clock <= shownAt[1] + NOTIFY_MS))
  /\ [][(notification = Some("donated") /\ notification' = Null) =>
          clock = shownAt[1] + NOTIFY_MS]_vars

\* C25: the three provider calls of a tick get three different timestamps, and
\* every provider instance gets a larger timestamp on a tick than on the tick
\* before.
C25_StampsIncrease ==
  /\ \A i \in 1..Len(stamps) :
       /\ stamps[i].hand # stamps[i].face
       /\ stamps[i].face # stamps[i].object
       /\ stamps[i].hand # stamps[i].object
  /\ Len(stamps) = 2 =>
       /\ stamps[2].hand > stamps[1].hand
       /\ stamps[2].face > stamps[1].face
       /\ stamps[2].object > stamps[1].object

\* C27: while confirmed is true, the raw-true frames since the counter was last
\* 0 outnumber the raw-false frames since then by at least CONFIRM_FRAMES; and
\* confirmed turns from false to true only on a raw-true frame.
C27_NoShortcut ==
  /\ [](confirmed => net >= CONFIRM_FRAMES)
  /\ [](net >= confirmCountRef)
  /\ [][(~confirmed /\ confirmed') => (ProcessedStep /\ frame'.raw)]_vars

\* confirmed again after misses that did not empty the counter
C27_Witness ==
  /\ confirmed /\ frame.raw /\ frame.count0 = CONFIRM_FRAMES - 1
  /\ net = CONFIRM_FRAMES + 1 /\ dip = [down |-> 2, up |-> 2]

\* C28: after k raw-false frames in a row (1 <= k <= CONFIRM_FRAMES) that
\* follow a frame with the counter at CONFIRM_FRAMES, and j raw-true frames
\* in a row after them, confirmed is false while j < k and true when j = k.
C28_DipRecovers ==
  (dip # NoDip) =>
     /\ dip.up <= dip.down
     /\ confirmed = (dip.up = dip.down)
     /\ confirmCountRef = CONFIRM_FRAMES - dip.down + dip.up

\* three misses made up by three raw-true frames
C28_Witness ==
  /\ dip = [down |-> 3, up |-> 3] /\ confirmed
  /\ frame.raw /\ frame.count0 = CONFIRM_FRAMES - 1

\* how far a status text is along initialising, requesting camera, loading
\* models, running or error
StatusRank(st) ==
  CASE st = StatusInitialising -> 0
    [] st = StatusRequesting -> 1
    [] st = StatusLoading -> 2
    [] OTHER -> 3

\* the step on which the effect runs again
RemountStep == prevPc = "none" /\ prevPc' # "none"

\* C30: the status is the running text only when init() of the active session
\* has loaded its providers and started its loop; within a session the status
\* moves forward only and stays once it is running or an error; and a step of
\* the session that was torn down leaves the status alone.
C30_StatusOfActiveSession ==
  /\ []((status = StatusRunning) => (initPc = "done"))
  /\ [][~RemountStep =>
          /\ StatusRank(status') >= StatusRank(status)
          /\ StatusRank(status) = 3 => status' = status]_vars
  /\ [][(prevPc' # prevPc /\ ~RemountStep) => status' = status]_vars

\* a step of the test button: a press, or its call resolving or rejecting
TestStep == testLoading' # testLoading

\* C31: a press of the test button and the settling of its call change none of
\* the counter, holdStart, lastDonation and confirmed and start no sink call of
\* the frame loop; and a confirmed frame at which hold and cooldown are
\* satisfied fires, whatever test donations were made before it.
C31_TestLeavesPolicy ==
  /\ [][TestStep =>
          UNCHANGED <<confirmCountRef, holdStartRef, lastDonationRef, confirmed,
                      cooldownSec, sinkCalls, pending, fires, rafId>>]_vars
  /\ [][(ProcessedStep /\ confirmed' /\ DueNow) => Fires]_vars
  /\ [](\A i \in DOMAIN fires :
          fires[i] - (IF i = 1 THEN -COOLDOWN_MS ELSE fires[i - 1]) >= COOLDOWN_MS)

\* the frame loop fires HOLD_MS after the start although a test donation was
\* acknowledged at the start and another is in flight
C31_Witness ==
  /\ fires = <<HOLD_MS>> /\ clock = HOLD_MS /\ frame.fired /\ pending = {1}
  /\ shownAt = Some(0) /\ notification = Some("donated")
  /\ Len(tests) = 2 /\ tests[1].result = "succeeded" /\ testLoading

\* the test donations so far that resolved with success
TestSuccesses == {i \in DOMAIN tests : tests[i].result = "succeeded"}

\* C32: the donation count is the number of fires so far plus the number of
\* test donations that resolved with success, and it never decreases.
C32_DonationCount ==
  /\ [](donationCount = Len(fires) + Cardinality(TestSuccesses))
  /\ [][donationCount' >= donationCount]_vars

\* one fire whose call was rejected, one test donation that succeeded and one
\* that was rejected: the count is 2
C32_Witness ==
  /\ donationCount = 2 /\ Len(fires) = 1 /\ outcome = (1 :> "rejected")
  /\ Len(tests) = 2 /\ ~testLoading
  /\ tests[1].result = "succeeded" /\ tests[2].result = "rejected"

\* the three conditions of a phone grip, read off the landmarks
NonThumbFingers == {<<8, 6>>, <<12, 10>>, <<16, 14>>, <<20, 18>>}

ThreeCurled(h) ==
  Cardinality({f \in NonThumbFingers : h[f[1]].y > h[f[2]].y}) >= 3

ThumbNear(h) ==
  (h[4].x - h[9].x) * (h[4].x - h[9].x) + (h[4].y - h[9].y) * (h[4].y - h[9].y)
    + (h[4].z - h[9].z) * (h[4].z - h[9].z) < 35 * 35

TallBox(h) ==
  \E t, b, l, r \in DOMAIN h :
     /\ \A k \in DOMAIN h : h[t].y <= h[k].y /\ h[k].y <= h[b].y
     /\ \A k \in DOMAIN h : h[l].x <= h[k].x /\ h[k].x <= h[r].x
     /\ 10 * (h[b].y - h[t].y) > 8 * (h[r].x - h[l].x)

\* C33: a hand is a phone grip exactly when at least 3 of its 4 non-thumb
\* fingers are curled, its thumb tip is nearer than 0.35 to landmark 9 and its
\* bounding box is higher than 0.8 times its width; the grip signal of a frame
\* is true exactly when one of its hands is a phone grip.
C33_PhoneGrip ==
  (answer # Null /\ probe.kind = "hands") =>
     /\ \A i \in DOMAIN probe.hands :
          answer.each[i] = (/\ ThreeCurled(probe.hands[i])
                            /\ ThumbNear(probe.hands[i])
                            /\ TallBox(probe.hands[i]))
     /\ answer.grip = (\E i \in DOMAIN probe.hands : answer.each[i])

\* two hands, the first with two curled fingers only, the second a grip
C33_Witness ==
  /\ answer # Null /\ probe.kind = "hands" /\ Len(probe.hands) = 2
  /\ probe.hands[2] = GripHand /\ ~ThreeCurled(probe.hands[1])
  /\ answer.each = <<FALSE, TRUE>> /\ answer.grip

\* C34: the divisor of either eye's ratio is at least 0.001, and a face with
\* fewer than 478 landmarks gives irisDown false.
C34_DenominatorFloored ==
  (answer # Null /\ probe.kind = "faces" /\ Len(probe.faces) > 0) =>
     /\ answer.dens[1] >= 10
     /\ answer.dens[2] >= 10
     /\ probe.faces[1].len < 478 => ~answer.irisDown

\* a run of startTimerIfBlacklisted completes
RunCompletes == Len(checks') < Len(checks)

C36_HiddenTabIdle ==
  hidden => (live = 0 /\ ~interval /\ seconds = 0 /\ ~popup)

\* C37: every donation was decided by a tick that made seconds a positive
\* multiple of DONATE_EVERY_SECONDS, and none is triggered after the timer was
\* stopped.
C37_NoDonationAfterStop ==
  \A i \in DOMAIN donations :
    /\ donations[i].at > 0 /\ donations[i].at % 10 = 0
    /\ ~donations[i].afterStop

\* no two entries of the list are equal ignoring case
NoDoubles(list) ==
  \A i, j \in DOMAIN list : toLowerCase(list[i]) = toLowerCase(list[j]) => i = j

\* C38: once every request to the store is served, the persisted list is the
\* earlier persisted list with exactly the requested edits applied and the
\* displayed list equals it; and no list holds two entries equal ignoring case.
C38_EditsKeepEntries ==
  /\ writes = <<>> => (store = want /\ items = store)
  /\ NoDoubles(items) /\ NoDoubles(store)

TypeOK ==
  /\ clock \in 0..LongTime
  /\ confirmCountRef \in 0..CONFIRM_FRAMES
====
